---- MODULE Spec2Model ----
(***************************************************************************)
(* rewrite_raw_ptr_fields: the clang tool that rewrites raw pointer fields *)
(* |Pointee* field_| into |CheckedPtr<Pointee> field_|.                    *)
(*                                                                         *)
(* Text (source files, replacement texts, file paths, output) is a         *)
(* sequence of one-byte strings, so that byte offsets, spans and the       *)
(* ':::' format are computed on bytes.  Offsets are 0-based as in clang;   *)
(* byte o of a text t is t[o + 1].                                         *)
(***************************************************************************)
EXTENDS Integers, Sequences, FiniteSets, TLC

(* ---------------------------------------------------------------- bounds *)
MaxUnits == 2          \* translation units on the command line
MaxStars == 2          \* pointer levels of a generated declarator
MaxDeclarators == 2    \* declarators of one generated field declaration
MaxPathLen == 2        \* bytes of a file path      (serialization inputs)
MaxTextLen == 3        \* bytes of a replacement text (serialization inputs)

(* ------------------------------------------------------------------ text *)
NUL == "NUL"           \* the byte '\0'
NL == "\n"

RECURSIVE Concat(_)
Concat(ss) == IF ss = <<>> THEN <<>> ELSE Head(ss) \o Concat(Tail(ss))

RECURSIVE Repeat(_, _)
Repeat(c, n) == IF n = 0 THEN <<>> ELSE <<c>> \o Repeat(c, n - 1)

Count(t, c) == Cardinality({i \in 1..Len(t) : t[i] = c})

\* t has the bytes of p at byte offset o
HasAt(t, o, p) ==
    /\ o >= 0
    /\ o + Len(p) <= Len(t)
    /\ \A i \in 1..Len(p) : t[o + i] = p[i]

Occurrences(t, p) == Cardinality({o \in 0..Len(t) : HasAt(t, o, p)})

Contains(t, p) == \E o \in 0..Len(t) : HasAt(t, o, p)

Digits == <<"0", "1", "2", "3", "4", "5", "6", "7", "8", "9">>

\* raw_ostream << unsigned
RECURSIVE ToDec(_)
ToDec(n) == IF n < 10 THEN <<Digits[n + 1]>>
            ELSE ToDec(n \div 10) \o <<Digits[(n % 10) + 1]>>

(* ----------------------------------------------------------------- types *)
\* clang::QualType values of the shapes the tool meets
BuiltinType(name) == [kind |-> "Builtin", name |-> name, const |-> FALSE]

RecordType(tag, name, c) ==
    [kind |-> "Record", tag |-> tag, name |-> name, const |-> c]

TypedefType(name, underlying) ==
    [kind |-> "Typedef", name |-> name, underlying |-> underlying,
     const |-> FALSE]

PointerType(pointee, c) ==
    [kind |-> "Pointer", pointee |-> pointee, const |-> c]

FunctionProtoType(ret, params) ==
    [kind |-> "FunctionProto", ret |-> ret, params |-> params, const |-> FALSE]

MemberPointerType(class, pointee) ==
    [kind |-> "MemberPointer", class |-> class, pointee |-> pointee,
     const |-> FALSE]

RECURSIVE PointerTo(_, _, _)
\* k levels of indirection over t; only the outermost level carries c
PointerTo(t, k, c) ==
    IF k = 0 THEN t
    ELSE PointerType(PointerTo(t, k - 1, FALSE), c)

RECURSIVE Desugar(_)
Desugar(t) == IF t.kind = "Typedef" THEN Desugar(t.underlying) ELSE t

\* Type::isPointerType looks at the canonical type
isPointerType(t) == Desugar(t).kind = "Pointer"

getPointeeType(t) == Desugar(t).pointee

\* the AST matcher pointerType() matches clang::PointerType nodes only:
\* no typedef is looked through, and a MemberPointerType is not a PointerType
pointerType(t) == t.kind = "Pointer"

RECURSIVE Stars(_)
Stars(t) == IF t.kind = "Pointer" THEN 1 + Stars(t.pointee) ELSE 0

(* ---------------------------------------------------------- type printer *)
\* clang::PrintingPolicy(LangOptions()) as set up by GenerateNewText
PrintingPolicyNoSuppress ==
    [SuppressTagKeyword |-> FALSE, UseVoidForZeroParams |-> TRUE]

printing_policy ==
    [SuppressTagKeyword |-> TRUE, UseVoidForZeroParams |-> TRUE]

RECURSIVE getAsString(_, _)
RECURSIVE ParamList(_, _)
ParamList(ps, policy) ==
    IF ps = <<>> THEN <<>>
    ELSE getAsString(Head(ps), policy)
         \o (IF Len(ps) > 1 THEN <<","," ">> ELSE <<>>)
         \o ParamList(Tail(ps), policy)

Params(ps, policy) ==
    <<"(">> \o (IF ps = <<>> /\ policy.UseVoidForZeroParams THEN <<"v","o","i","d">>
              ELSE ParamList(ps, policy)) \o <<")">>

\* QualType::getAsString(policy)
getAsString(t, policy) ==
    CASE t.kind = "Builtin" ->
           (IF t.const THEN <<"c","o","n","s","t"," ">> ELSE <<>>) \o t.name
      [] t.kind = "Typedef" ->
           (IF t.const THEN <<"c","o","n","s","t"," ">> ELSE <<>>) \o t.name
      [] t.kind = "Record" ->
           (IF t.const THEN <<"c","o","n","s","t"," ">> ELSE <<>>)
           \o (IF policy.SuppressTagKeyword THEN <<>> ELSE t.tag \o <<" ">>)
           \o t.name
      [] t.kind = "FunctionProto" ->
           getAsString(t.ret, policy) \o <<" ">> \o Params(t.params, policy)
      [] t.kind = "MemberPointer" ->
           getAsString(t.pointee.ret, policy) \o <<" ","(">> \o t.class \o <<":",":","*",")">>
           \o Params(t.pointee.params, policy)
      [] t.kind = "Pointer" ->
           IF t.pointee.kind = "FunctionProto"
           THEN getAsString(t.pointee.ret, policy) \o <<" ","(","*">>
                \o (IF t.const THEN <<"c","o","n","s","t">> ELSE <<>>) \o <<")">>
                \o Params(t.pointee.params, policy)
           ELSE getAsString(t.pointee, policy)
                \o (IF t.pointee.kind = "Pointer" /\ ~t.pointee.const
                    THEN <<>> ELSE <<" ">>)
                \o <<"*">>
                \o (IF t.const THEN <<"c","o","n","s","t">> ELSE <<>>)

(* ---------------------------------------------------------- source files *)
\* A member declaration statement as written in a source file.
\*   shape "field":      <base> <declarator> {, <declarator>}
\*   shape "funcptr":    <base> (*<name>)(<params>)
\*   shape "memfuncptr": <base> (<class>::*<name>)(<params>)
\*   shape "typedef":    typedef <base> (*<name>)(<params>)
\* A declarator has `stars` pointer levels, an optional const on the
\* outermost level and a style: "left" T* n, "right" T *n, "tight" T*n.
Declarator(stars, style, pconst, name) ==
    [stars |-> stars, style |-> style, pconst |-> pconst, name |-> name]

Stmt(shape, base, elaborated, decls, class, params) ==
    [shape |-> shape, base |-> base, elaborated |-> elaborated,
     decls |-> decls, class |-> class, params |-> params]

FieldStmt(base, elaborated, decls) ==
    Stmt("field", base, elaborated, decls, <<>>, <<>>)

int == BuiltinType(<<"i","n","t">>)
void == BuiltinType(<<"v","o","i","d">>)
char == BuiltinType(<<"c","h","a","r">>)
SomeClass == RecordType(<<"c","l","a","s","s">>, <<"S","o","m","e","C","l","a","s","s">>, FALSE)
ConstPointee == RecordType(<<"c","l","a","s","s">>, <<"P","o","i","n","t","e","e">>, TRUE)
func_ptr_typedef ==
    TypedefType(<<"f","u","n","c","_","p","t","r","_","t","y","p","e","d","e","f">>,
                PointerType(FunctionProtoType(void, <<char>>), FALSE))

\* the written text of a base type (declaration specifiers)
BaseText(s) ==
    (IF s.base.const THEN <<"c","o","n","s","t"," ">> ELSE <<>>)
    \o (IF s.elaborated THEN s.base.tag \o <<" ">> ELSE <<>>)
    \o s.base.name

WrittenParams(ps) == <<"(">> \o ParamList(ps, printing_policy) \o <<")">>

\* the bytes between the end of what precedes declarator i and its name
BeforeName(s, i) ==
    LET d == s.decls[i]
        stars == Repeat("*", d.stars)
    IN CASE s.shape = "funcptr" -> <<" ","(","*">>
         [] s.shape = "typedef" -> <<" ","(","*">>
         [] s.shape = "memfuncptr" -> <<" ","(">> \o s.class \o <<":",":","*">>
         [] s.shape = "field" /\ i > 1 ->
              <<","," ">> \o stars \o (IF d.pconst THEN <<"c","o","n","s","t"," ">> ELSE <<>>)
         [] s.shape = "field" /\ i = 1 /\ d.stars = 0 -> <<" ">>
         [] s.shape = "field" /\ i = 1 /\ d.stars > 0 /\ d.style = "left" ->
              stars \o (IF d.pconst THEN <<" ","c","o","n","s","t">> ELSE <<>>) \o <<" ">>
         [] s.shape = "field" /\ i = 1 /\ d.stars > 0 /\ d.style = "right" ->
              <<" ">> \o stars \o (IF d.pconst THEN <<"c","o","n","s","t"," ">> ELSE <<>>)
         [] s.shape = "field" /\ i = 1 /\ d.stars > 0 /\ d.style = "tight" ->
              stars \o (IF d.pconst THEN <<"c","o","n","s","t"," ">> ELSE <<>>)

AfterName(s) ==
    IF s.shape = "field" THEN <<>> ELSE <<")">> \o WrittenParams(s.params)

RECURSIVE DeclaratorsText(_, _)
DeclaratorsText(s, i) ==
    IF i > Len(s.decls) THEN <<>>
    ELSE BeforeName(s, i) \o s.decls[i].name \o AfterName(s)
         \o DeclaratorsText(s, i + 1)

SpecifiersText(s) ==
    (IF s.shape = "typedef" THEN <<"t","y","p","e","d","e","f"," ">> ELSE <<>>) \o BaseText(s)

\* the statement without its terminating ';'
StmtText(s) == SpecifiersText(s) \o DeclaratorsText(s, 1)

\* byte offset of the name of declarator i from the start of the statement
NameOffset(s, i) ==
    Len(SpecifiersText(s)) + Len(DeclaratorsText(s, 1))
    - Len(DeclaratorsText(s, i)) + Len(BeforeName(s, i))

\* the type the front end gives to declarator i
DeclaredType(s, i) ==
    CASE s.shape = "field" ->
           PointerTo(s.base, s.decls[i].stars, s.decls[i].pconst)
      [] s.shape = "funcptr" ->
           PointerType(FunctionProtoType(s.base, s.params), FALSE)
      [] s.shape = "memfuncptr" ->
           MemberPointerType(s.class, FunctionProtoType(s.base, s.params))
      [] s.shape = "typedef" ->
           PointerType(FunctionProtoType(s.base, s.params), FALSE)

\* the clang::FieldDecl nodes a statement that starts at byte `begin` of
\* its file introduces (a typedef introduces none).  All declarators of one
\* statement share the statement's first token as getBeginLoc().
StmtFields(begin, s) ==
    IF s.shape = "typedef" THEN <<>>
    ELSE [i \in 1..Len(s.decls) |->
            [begin |-> begin,
             loc |-> begin + NameOffset(s, i),
             ident |-> s.decls[i].name,
             type |-> DeclaredType(s, i)]]

RECURSIVE Body(_)
\* the member declarations of a struct, one per line
Body(stmts) ==
    IF stmts = <<>> THEN <<>>
    ELSE <<" "," ">> \o StmtText(Head(stmts)) \o <<";","\n">> \o Body(Tail(stmts))

RECURSIVE FieldsFrom(_, _)
\* the fields of the statements of a struct body that starts at byte `at`
FieldsFrom(stmts, at) ==
    IF stmts = <<>> THEN <<>>
    ELSE StmtFields(at + 2, Head(stmts))
         \o FieldsFrom(Tail(stmts), at + 2 + Len(StmtText(Head(stmts))) + 2)

getBeginLoc(field_decl) == field_decl.begin

getLocation(field_decl) == field_decl.loc

\* the test input: class SomeClass; struct MyStruct { ... };
TestStmts ==
    << FieldStmt(SomeClass, FALSE,
                 <<Declarator(2, "left", FALSE, <<"d","o","u","b","l","e","_","p","t","r">>)>>),
       FieldStmt(void, FALSE,
                 <<Declarator(1, "left", FALSE, <<"v","o","i","d","_","p","t","r">>)>>),
       Stmt("funcptr", int, FALSE,
            <<Declarator(1, "left", FALSE, <<"f","u","n","c","_","p","t","r">>)>>, <<>>, <<>>),
       Stmt("memfuncptr", int, FALSE,
            <<Declarator(1, "left", FALSE, <<"m","e","m","b","e","r","_","f","u","n","c","_","p","t","r">>)>>,
            <<"M","y","S","t","r","u","c","t">>, <<char>>),
       Stmt("typedef", void, FALSE,
            <<Declarator(1, "left", FALSE, <<"f","u","n","c","_","p","t","r","_","t","y","p","e","d","e","f">>)>>,
            <<>>, <<char>>),
       FieldStmt(func_ptr_typedef, FALSE,
                 <<Declarator(0, "left", FALSE, <<"f","u","n","c","_","p","t","r","_","t","y","p","e","d","e","f","_","f","i","e","l","d","1">>)>>),
       FieldStmt(func_ptr_typedef, FALSE,
                 <<Declarator(1, "left", FALSE, <<"f","u","n","c","_","p","t","r","_","t","y","p","e","d","e","f","_","f","i","e","l","d","2">>)>>)
    >>

TestPrologue == <<"c","l","a","s","s"," ","S","o","m","e","C","l","a","s","s",";","\n","\n","s","t","r","u","c","t"," ","M","y","S","t","r","u","c","t"," ","{","\n">>

Epilogue == <<"}",";","\n">>

TestText == TestPrologue \o Body(TestStmts) \o Epilogue

TestFields == FieldsFrom(TestStmts, Len(TestPrologue))

(* ---- generated header declarations *)
Bases == { [base |-> void, elaborated |-> FALSE],
           [base |-> SomeClass, elaborated |-> FALSE],
           [base |-> SomeClass, elaborated |-> TRUE],
           [base |-> ConstPointee, elaborated |-> FALSE] }

FieldName(i) == <<"f">> \o ToDec(i)

FirstDeclarators ==
    { Declarator(0, "left", FALSE, FieldName(1)) }
    \cup { Declarator(k, st, c, FieldName(1)) :
             k \in 1..MaxStars, st \in {"left", "right", "tight"},
             c \in BOOLEAN }

RECURSIVE MoreDeclarators(_)
\* the sequences of declarators 2..n of a statement
MoreDeclarators(n) ==
    IF n <= 1 THEN { <<>> }
    ELSE MoreDeclarators(n - 1)
         \cup { Append(ds, Declarator(k, "right", FALSE, FieldName(n))) :
                  ds \in { e \in MoreDeclarators(n - 1) : Len(e) = n - 2 },
                  k \in 0..MaxStars }

HdrStmts ==
    { FieldStmt(b.base, b.elaborated, <<d>> \o ds) :
        b \in Bases, d \in FirstDeclarators,
        ds \in MoreDeclarators(MaxDeclarators) }
    \cup { TestStmts[3], TestStmts[4], TestStmts[6] }

HdrPrologue == <<"s","t","r","u","c","t"," ","H"," ","{","\n">>

HdrPath == <<"a",".","h">>

MainPath(i) == <<"u">> \o ToDec(i) \o <<".","c","c">>

(* ----------------------------------------------------------------- state *)
VARIABLES
    hdr,            \* the member declaration the shared header a.h holds
    units,          \* options.getSourcePathList(): per unit, includes a.h?
    pc,             \* "run" in tool.run, "main" after it, "emit", "done";
                    \* "aborted" after a failed assert
    cur,            \* the unit ClangTool::run is processing
    pos,            \* matches of the current unit already delivered
    ProcessingFailed, \* ClangTool::run: some unit failed
    replacements,   \* std::vector<Replacement> replacements
    sites,          \* the FieldDecl bound by each delivered match
    result,         \* int result of tool.run (-1: not yet returned)
    emitted,        \* iterations of the output loop done
    out,            \* llvm::outs(): the writes made, in order
    status          \* exit status of main (-1: still running)

vars == <<hdr, units, pc, cur, pos, ProcessingFailed, replacements, sites,
          result, emitted, out, status>>

\* the unmodified bytes of a file: the header holds `hdr`, every main file
\* holds the test input
FileText(file) ==
    IF file = HdrPath THEN HdrPrologue \o Body(<<hdr>>) \o Epilogue
    ELSE TestText

\* the FieldDecl nodes of a file, in source order
FileFields(file) ==
    LET fields == IF file = HdrPath
                  THEN FieldsFrom(<<hdr>>, Len(HdrPrologue))
                  ELSE TestFields
    IN [k \in 1..Len(fields) |->
          [file |-> file, begin |-> fields[k].begin, loc |-> fields[k].loc,
           ident |-> fields[k].ident, type |-> fields[k].type]]

\* the FieldDecl nodes of the AST of unit i: the header's, then the main
\* file's
UnitFields(i) ==
    (IF units[i].incl THEN FileFields(HdrPath) ELSE <<>>)
    \o FileFields(MainPath(i))

field_decl_matcher_member(fd) == pointerType(fd.type) \/ fd.type.kind = "MemberPointer"

\* fieldDecl(hasType(pointerType())).bind("fieldDecl")
field_decl_matcher(fd) == pointerType(fd.type)

Selects(fd) == field_decl_matcher(fd)

\* the matches MatchFinder delivers for unit i, in traversal order
UnitMatches(i) == SelectSeq(UnitFields(i), Selects)

(* ------------------------------------------------------ FieldDeclRewriter *)
RECURSIVE Innermost(_)
Innermost(t) == IF t.kind = "Pointer" THEN Innermost(t.pointee) ELSE t

GenerateNewTextNested(pointer_type) ==
    Concat([i \in 1..Stars(pointer_type) |-> <<"C","h","e","c","k","e","d","P","t","r","<">>])
    \o getAsString(Innermost(pointer_type), printing_policy)
    \o Repeat(">", Stars(pointer_type))

GenerateNewText(pointer_type) ==
    <<"C","h","e","c","k","e","d","P","t","r","<">>
    \o getAsString(getPointeeType(pointer_type), printing_policy)
    \o <<">">>

\* clang::tooling::Replacement(source_manager, CharSourceRange, text):
\* offset of the range's begin, length = end offset - begin offset.  Both
\* are `unsigned` (32 bits) in the code; the values are kept as integers
\* here, and a negative difference d stands for the wrapped 2^32 + d.
Replacement(file, begin_offset, end_offset, text) ==
    [file |-> file,
     offset |-> begin_offset,
     length |-> end_offset - begin_offset,
     text |-> text]

replacement_range_to_name(field_decl) ==
    [begin |-> getBeginLoc(field_decl), end |-> getLocation(field_decl)]

replacement_range_reversed(field_decl) ==
    [begin |-> getLocation(field_decl) - 1, end |-> getBeginLoc(field_decl)]

replacement_range(field_decl) ==
    [begin |-> getBeginLoc(field_decl), end |-> getLocation(field_decl) - 1]

\* the Replacement FieldDeclRewriter::run appends for a match
NewReplacement(field_decl) ==
    Replacement(field_decl.file,
                replacement_range(field_decl).begin,
                replacement_range(field_decl).end,
                GenerateNewText(field_decl.type))

(* --------------------------------------------------------------- actions *)
UnitConfigs ==
    UNION { [1..n -> [incl : BOOLEAN]] : n \in 1..MaxUnits }

Init ==
    /\ hdr \in HdrStmts
    /\ units \in UnitConfigs
    /\ pc = "run"
    /\ cur = 1
    /\ pos = 0
    /\ ProcessingFailed = FALSE
    /\ replacements = <<>>
    /\ sites = <<>>
    /\ result = -1
    /\ emitted = 0
    /\ out = <<>>
    /\ status = -1

\* ClangTool::run: the front end gives up on the current unit before the
\* match callbacks run
UnitAborts ==
    /\ pc = "run"
    /\ cur <= Len(units)
    /\ pos = 0
    /\ ProcessingFailed' = TRUE
    /\ cur' = cur + 1
    /\ UNCHANGED <<hdr, units, pc, pos, replacements, sites, result,
                   emitted, out, status>>

\* FieldDeclRewriter::run for the next match of the current unit
Run ==
    /\ pc = "run"
    /\ cur <= Len(units)
    /\ pos < Len(UnitMatches(cur))
    /\ LET field_decl == UnitMatches(cur)[pos + 1]
       IN IF isPointerType(field_decl.type)
          THEN /\ replacements' =
                     Append(replacements, NewReplacement(field_decl))
               /\ sites' = Append(sites, field_decl)
               /\ pos' = pos + 1
               /\ pc' = pc
          ELSE \* assert(... && "matcher should only match pointer types")
               /\ pc' = "aborted"
               /\ UNCHANGED <<replacements, sites, pos>>
    /\ UNCHANGED <<hdr, units, cur, ProcessingFailed, result, emitted,
                   out, status>>

\* ClangTool::run: the current unit is finished, with or without errors
UnitEnds ==
    /\ pc = "run"
    /\ cur <= Len(units)
    /\ pos = Len(UnitMatches(cur))
    /\ \E ok \in BOOLEAN : ProcessingFailed' = (ProcessingFailed \/ ~ok)
    /\ cur' = cur + 1
    /\ pos' = 0
    /\ UNCHANGED <<hdr, units, pc, replacements, sites, result, emitted,
                   out, status>>

\* int result = tool.run(factory.get());
ToolReturns ==
    /\ pc = "run"
    /\ cur > Len(units)
    /\ result' = (IF ProcessingFailed THEN 1 ELSE 0)
    /\ pc' = "main"
    /\ UNCHANGED <<hdr, units, cur, pos, ProcessingFailed, replacements,
                   sites, emitted, out, status>>

BeginLine == <<"=","=","=","="," ","B","E","G","I","N"," ","E","D","I","T","S"," ","=","=","=","=","\n">>

EndLine == <<"=","=","=","="," ","E","N","D"," ","E","D","I","T","S"," ","=","=","=","=","\n">>

ReplaceNewlinesKeep(text) == text

\* std::replace(text.begin(), text.end(), '\n', '\0')
ReplaceNewlines(text) ==
    [i \in 1..Len(text) |-> IF text[i] = NL THEN NUL ELSE text[i]]

\* the bytes one iteration of the output loop writes for r
RecordLine(r) ==
    <<"r",":",":",":">> \o r.file \o <<":",":",":">> \o ToDec(r.offset) \o <<":",":",":">>
    \o ToDec(r.length) \o <<":",":",":">> \o ReplaceNewlines(r.text) \o <<NL>>

FailureIgnored(res) == FALSE

\* if (result != 0) return result;
Failure(res) == res # 0

MainFails ==
    /\ pc = "main"
    /\ Failure(result)
    /\ status' = result
    /\ pc' = "done"
    /\ UNCHANGED <<hdr, units, cur, pos, ProcessingFailed, replacements,
                   sites, result, emitted, out>>

WriteBegin ==
    /\ pc = "main"
    /\ ~Failure(result)
    /\ out' = Append(out, BeginLine)
    /\ pc' = "emit"
    /\ UNCHANGED <<hdr, units, cur, pos, ProcessingFailed, replacements,
                   sites, result, emitted, status>>

WriteRecord ==
    /\ pc = "emit"
    /\ emitted < Len(replacements)
    /\ out' = Append(out, RecordLine(replacements[emitted + 1]))
    /\ emitted' = emitted + 1
    /\ UNCHANGED <<hdr, units, pc, cur, pos, ProcessingFailed, replacements,
                   sites, result, status>>

WriteEnd ==
    /\ pc = "emit"
    /\ emitted = Len(replacements)
    /\ out' = Append(out, EndLine)
    /\ status' = 0
    /\ pc' = "done"
    /\ UNCHANGED <<hdr, units, cur, pos, ProcessingFailed, replacements,
                   sites, result, emitted>>

Next ==
    \/ UnitAborts
    \/ Run
    \/ UnitEnds
    \/ ToolReturns
    \/ MainFails
    \/ WriteBegin
    \/ WriteRecord
    \/ WriteEnd

Spec == Init /\ [][Next]_vars

(* ------------------------------------------- the serialization, on its own *)
\* The output loop of main applied to an arbitrary Replacement: the inputs
\* are drawn from all short paths and texts over a few bytes that matter to
\* the format.
PathBytes == {"a", ":", NL, NUL}

TextBytes == {"x", ":", NL, NUL}

Texts(bytes, n) == UNION { [1..k -> bytes] : k \in 0..n }

SerInit ==
    /\ \E file \in Texts(PathBytes, MaxPathLen),
          text \in Texts(TextBytes, MaxTextLen),
          offset \in {0, 13}, length \in {5, 120} :
            replacements = << [file |-> file, offset |-> offset,
                               length |-> length, text |-> text] >>
    /\ hdr = TestStmts[2]
    /\ units = <<>>
    /\ pc = "main"
    /\ cur = 1
    /\ pos = 0
    /\ ProcessingFailed = FALSE
    /\ sites = <<>>
    /\ result = 0
    /\ emitted = 0
    /\ out = <<>>
    /\ status = -1

SerNext == WriteBegin \/ WriteRecord \/ WriteEnd

SerSpec == SerInit /\ [][SerNext]_vars

\* ---- the reader of the format (the downstream batch-apply step)
RECURSIVE SplitLines(_)
\* the lines of a stream, each without its terminating newline
SplitLines(stream) ==
    IF stream = <<>> THEN <<>>
    ELSE LET ends == {i \in 1..Len(stream) : stream[i] = NL}
         IN IF ends = {} THEN <<stream>>
            ELSE LET e == CHOOSE i \in ends : \A j \in ends : i <= j
                 IN <<SubSeq(stream, 1, e - 1)>>
                    \o SplitLines(SubSeq(stream, e + 1, Len(stream)))

Delimiter == <<":",":",":">>

RECURSIVE SplitFields(_)
\* line.split(':::')
SplitFields(line) ==
    LET at == {o \in 0..Len(line) : HasAt(line, o, Delimiter)}
    IN IF at = {} THEN <<line>>
       ELSE LET o == CHOOSE i \in at : \A j \in at : i <= j
            IN <<SubSeq(line, 1, o)>>
               \o SplitFields(SubSeq(line, o + Len(Delimiter) + 1, Len(line)))

DigitValue(c) == CHOOSE d \in 0..9 : Digits[d + 1] = c

IsDigit(c) == \E d \in 0..9 : Digits[d + 1] = c

RECURSIVE FromDec(_)
\* int(field); -1 when the field is not a decimal number
FromDec(t) ==
    IF t = <<>> \/ \E i \in 1..Len(t) : ~IsDigit(t[i]) THEN -1
    ELSE IF Len(t) = 1 THEN DigitValue(t[1])
    ELSE 10 * FromDec(SubSeq(t, 1, Len(t) - 1)) + DigitValue(t[Len(t)])

NulToNewline(text) ==
    [i \in 1..Len(text) |-> IF text[i] = NUL THEN NL ELSE text[i]]

Malformed == [file |-> <<>>, offset |-> -1, length |-> -1, text |-> <<>>]

ParseRecordLine(line) ==
    LET fields == SplitFields(line)
    IN IF Len(fields) = 5 /\ fields[1] = <<"r">>
       THEN [file |-> fields[2], offset |-> FromDec(fields[3]),
             length |-> FromDec(fields[4]), text |-> NulToNewline(fields[5])]
       ELSE Malformed

OutLines == SplitLines(Concat(out))

\* the output is the BEGIN line, one line per Replacement that parses back
\* to it, and the END line
RoundTrips ==
    /\ Len(OutLines) = Len(replacements) + 2
    /\ OutLines[1] \o <<NL>> = BeginLine
    /\ OutLines[Len(OutLines)] \o <<NL>> = EndLine
    /\ \A i \in 1..Len(replacements) :
         ParseRecordLine(OutLines[i + 1]) = replacements[i]

DelimiterFree(r) ==
    /\ ~Contains(r.file, Delimiter)
    /\ ~Contains(r.text, Delimiter)
    /\ Count(r.file, NUL) = 0
    /\ Count(r.text, NUL) = 0

PathSafe(r) ==
    /\ Count(r.file, NL) = 0
    /\ (r.file = <<>> \/ r.file[Len(r.file)] # ":")

(* ---------------------------------------------------------------- claims *)
\* the half-open byte span [offset, offset + length) of a Replacement
InSpan(r, p) == r.offset <= p /\ p < r.offset + r.length

Disjoint(r1, r2) ==
    \/ r1.offset + r1.length <= r2.offset
    \/ r2.offset + r2.length <= r1.offset

SpanBytes(r) ==
    SubSeq(FileText(r.file), r.offset + 1, r.offset + r.length)

Records == 1..Len(replacements)

Succeeded == pc = "done" /\ status = 0

\* the fields of all units, and the number of units whose AST holds fd
AllFields ==
    UNION { {UnitFields(u)[k] : k \in 1..Len(UnitFields(u))} :
              u \in 1..Len(units) }

UnitsHolding(fd) ==
    Cardinality({u \in 1..Len(units) :
                   \E k \in 1..Len(UnitFields(u)) : UnitFields(u)[k] = fd})

RecordsOf(fd) == Cardinality({i \in Records : sites[i] = fd})

IsFunctionPointer(t) ==
    t.kind = "Pointer" /\ t.pointee.kind = "FunctionProto"

\* C1: once ClangTool::run has seen a unit fail, nothing is ever written to
\* the output (no BEGIN line, no r::: record, no END line), whatever
\* replacements the other units accumulated, and main ends with a nonzero
\* exit status.
C1_AllOrNothing ==
    ProcessingFailed =>
        /\ out = <<>>
        /\ status # 0
        /\ (pc = "done" => status > 0)

C1_Witness ==
    /\ pc = "done"
    /\ ProcessingFailed
    /\ status # 0
    /\ Len(replacements) > 0
    /\ Len(units) > 1

\* C2: after a run in which all units succeeded, the record lines of the
\* edit block are exactly the edits of the units' matched fields, and no
\* edit is written twice, also for a field of a header that several units
\* include.
C2_ExactlyOnce ==
    Succeeded =>
        LET lines == {i \in 2..(Len(out) - 1) : TRUE}
        IN /\ {out[i] : i \in lines}
                = {RecordLine(NewReplacement(fd)) :
                     fd \in {f \in AllFields : Selects(f)}}
           /\ \A i, j \in lines : i # j => out[i] # out[j]

\* C3: the record of every matched field starts at the declaration start
\* and has length (name_location - 1) - decl_start, and no byte of the
\* field's identifier lies inside its span.
C3_SpanFormula ==
    /\ Len(sites) = Len(replacements)
    /\ \A i \in Records :
         LET r == replacements[i]
             fd == sites[i]
         IN /\ r.file = fd.file
            /\ r.offset = fd.begin
            /\ r.length = (fd.loc - 1) - fd.begin
            /\ HasAt(FileText(fd.file), fd.loc, fd.ident)
            /\ \A p \in fd.loc..(fd.loc + Len(fd.ident) - 1) : ~InSpan(r, p)

C3_Witness ==
    \E i \in Records :
        /\ SpanBytes(replacements[i]) = <<"c","o","n","s","t"," ","P","o","i","n","t","e","e","*"," ","c","o","n","s","t">>
        /\ sites[i].ident = FieldName(1)
        /\ replacements[i].offset = Len(HdrPrologue) + 2

\* C4: the span of every matched field captures the written type in its
\* entirety: no byte of the type text (in particular no '*') between the
\* declaration start and the field's name is left outside the span; only
\* whitespace may remain in front of the name.
C4_WholeType ==
    \A i \in Records :
        \A p \in sites[i].begin..(sites[i].loc - 1) :
            \/ InSpan(replacements[i], p)
            \/ FileText(sites[i].file)[p + 1] = " "

C7_Original ==
    (pc = "done" /\ \A i \in Records : DelimiterFree(replacements[i]))
        => RoundTrips

\* C7: every record whose path and text are free of ':::' and of NUL, and
\* whose path has no newline and does not end with ':', is written as
\* exactly one line between the BEGIN and END lines, and that line parses
\* back to the record, whatever newlines the text contains.
C7_RoundTrip ==
    (/\ pc = "done"
     /\ \A i \in Records :
          DelimiterFree(replacements[i]) /\ PathSafe(replacements[i]))
        => RoundTrips

C7_Witness ==
    /\ pc = "done"
    /\ RoundTrips
    /\ \E i \in Records :
         /\ DelimiterFree(replacements[i]) /\ PathSafe(replacements[i])
         /\ Count(replacements[i].text, NL) > 0
         /\ Count(replacements[i].text, ":") > 0
         /\ Count(replacements[i].file, ":") > 0

\* C8: any two distinct records for the same file have disjoint spans,
\* also when their fields come from one declaration statement.
C8_NoOverlap ==
    \A i, j \in Records :
        (/\ replacements[i].file = replacements[j].file
         /\ replacements[i] # replacements[j])
            => Disjoint(replacements[i], replacements[j])

WithinFile(r) ==
    /\ r.offset >= 0
    /\ r.length >= 0
    /\ r.offset + r.length <= Len(FileText(r.file))

====
